---- MODULE Spec2Model ----
(***************************************************************************)
(* A model of src/src/corner_plot/corner_plot.py.                          *)
(*                                                                         *)
(*   Spec        confidence_2d: 2-D histogram, contour levels, and the     *)
(*               choice between contour drawing and the scatter fallback.  *)
(*   SpecStep    the step polyline corner_plot builds from a 1-D histogram.*)
(*   SpecCorner  the control flow of corner_plot: axes map, warnings,      *)
(*               the pair loop, truth overlays, axis labels.               *)
(*                                                                         *)
(* Sample values are small integers.  Bin edges are rationals; they are    *)
(* kept exactly, scaled by 2*nbins (see Edges).  Probabilities are kept    *)
(* as integers in units of 1/Denominator, and cdf <= li is decided by the  *)
(* exact cross-multiplication.                                             *)
(***************************************************************************)
EXTENDS Integers, Sequences, FiniteSets, TLC

\* Bounds of the model.
MaxSamples == 6
MaxVal == 1
MaxBins == 2
MaxStepBins == 3
MaxCount == 2
MaxTraces == 3

\* The scale of the probabilities: 0.3935 is 3935.
Denominator == 10000

VARIABLES
    \* confidence_2d
    pc, xsamples, ysamples, nbins, intervals, scatter, ax, style,
    H, xedges, yedges, h, v, exc, raised, calls, points, levels, xlim, ylim,
    \* the step polyline of corner_plot
    spc, sbins, vals, walls, i, xplot, yplot,
    \* corner_plot
    cpc, n_traces, truths, axis_labels, cscatter, x_var, y_var, hist_2d_axes,
    hist_1d_axes, invoked, overlays, panels, warnings, labelled, craised

c2dVars == <<pc, xsamples, ysamples, nbins, intervals, scatter, ax, style,
             H, xedges, yedges, h, v, exc, raised, calls, points, levels, xlim, ylim>>
stepVars == <<spc, sbins, vals, walls, i, xplot, yplot>>
cornerVars == <<cpc, n_traces, truths, axis_labels, cscatter, x_var, y_var, hist_2d_axes,
                hist_1d_axes, invoked, overlays, panels, warnings, labelled, craised>>
vars == <<c2dVars, stepVars, cornerVars>>

---------------------------------------------------------------------------
(* Sequences of numbers. *)

RECURSIVE SeqSum(_)
SeqSum(s) == IF s = <<>> THEN 0 ELSE s[1] + SeqSum(Tail(s))

SetMax(S) == CHOOSE m \in S : \A k \in S : k <= m
SetMin(S) == CHOOSE m \in S : \A k \in S : m <= k
Range(s) == {s[k] : k \in DOMAIN s}

\* s[::-1]
Reverse(s) == [k \in 1..Len(s) |-> s[Len(s) + 1 - k]]

\* np.cumsum(h)[k-1]
Cum(s, k) == SeqSum(SubSeq(s, 1, k))

RemoveAt(s, k) == SubSeq(s, 1, k - 1) \o SubSeq(s, k + 1, Len(s))

RECURSIVE SortAsc(_)
SortAsc(s) ==
    IF s = <<>> THEN <<>>
    ELSE LET k == CHOOSE k \in DOMAIN s : \A j \in DOMAIN s : s[k] <= s[j]
         IN  <<s[k]>> \o SortAsc(RemoveAt(s, k))

\* np.sort(a)[::-1]
SortDesc(s) == Reverse(SortAsc(s))

---------------------------------------------------------------------------
(* np.histogram2d, as confidence_2d calls it: nbins equal-width bins per   *)
(* axis over [min, max] of the samples; a range of zero width is widened   *)
(* to [min - 0.5, max + 0.5]; the last bin is closed on the right.         *)

\* Hi2 with the zero-width range widened by 1 above instead of 0.5.
Hi2Wide(s) == LET mn == SetMin(Range(s)) mx == SetMax(Range(s))
              IN  IF mn = mx THEN 2 * mx + 2 ELSE 2 * mx

\* Twice the lower and the upper end of the binned range of samples s.
Lo2(s) == LET mn == SetMin(Range(s)) mx == SetMax(Range(s))
          IN  IF mn = mx THEN 2 * mn - 1 ELSE 2 * mn
Hi2(s) == LET mn == SetMin(Range(s)) mx == SetMax(Range(s))
          IN  IF mn = mx THEN 2 * mx + 1 ELSE 2 * mx

\* The nb+1 bin edges of samples s, each multiplied by 2*nb.
Edges(s, nb) ==
    LET lo == Lo2(s)
        hi == Hi2(s)
    IN  [k \in 1..(nb + 1) |-> lo * nb + (k - 1) * (hi - lo)]

\* The bin (1..nb) of the value val when the binned range is [lo/2, hi/2].
BinOf(val, lo, hi, nb) ==
    LET k == ((2 * val - lo) * nb) \div (hi - lo)
    IN  IF k >= nb THEN nb ELSE k + 1

\* The bins of the samples s, one per sample.
Bins(s, nb) ==
    LET lo == Lo2(s)
        hi == Hi2(s)
    IN  [k \in DOMAIN s |-> BinOf(s[k], lo, hi, nb)]

\* H of np.histogram2d(ys, xs, bins=nb): H[<<yi, xi>>].
Histogram2d(ys, xs, nb) ==
    LET ybin == Bins(ys, nb)
        xbin == Bins(xs, nb)
    IN  [b \in (1..nb) \X (1..nb) |->
            Cardinality({k \in DOMAIN xs : ybin[k] = b[1] /\ xbin[k] = b[2]})]

\* H.flatten(), row by row.
Flatten(HH, nb) ==
    [k \in 1..(nb * nb) |-> HH[<<((k - 1) \div nb) + 1, ((k - 1) % nb) + 1>>]]

---------------------------------------------------------------------------
(* The contour levels, lines 28-33. *)

\* CdfMask with the comparison turned round: cdf >= li.
CdfMaskAtLeast(hh, li) ==
    {k \in DOMAIN hh : Cum(hh, k) * Denominator >= li * Cum(hh, Len(hh))}

\* The mask cdf <= li over the sorted occupancies hh, as the set of its indices.
CdfMask(hh, li) ==
    {k \in DOMAIN hh : Cum(hh, k) * Denominator <= li * Cum(hh, Len(hh))}

\* Level with the first selected entry taken, h[cdf <= li][0].
LevelFirst(hh, li) == hh[SetMin({k \in DOMAIN hh :
                        Cum(hh, k) * Denominator <= li * Cum(hh, Len(hh))})]

\* h[cdf <= li][-1]: the last selected entry (an IndexError when none is selected).
Level(hh, li) == hh[SetMax(CdfMask(hh, li))]

\* Some h[cdf <= li][-1] of the comprehension raises IndexError.
LevelRaises(hh, iv) == \E j \in 2..Len(iv) : CdfMask(hh, iv[j]) = {}

\* v = np.append(np.array([... for li in intervals[1:]])[::-1], h[0])
Levels(hh, iv) ==
    Append(Reverse([j \in 1..(Len(iv) - 1) |-> Level(hh, iv[j + 1])]), hh[1])

\* DiffPositive with >= for >: equal neighbours pass.
DiffNonNegative(vv) == \A k \in 1..(Len(vv) - 1) : vv[k + 1] - vv[k] >= 0

\* np.all(np.diff(v) > 0.)
DiffPositive(vv) == \A k \in 1..(Len(vv) - 1) : vv[k + 1] - vv[k] > 0

---------------------------------------------------------------------------
(* The inputs of confidence_2d. *)

Pairs == (0..MaxVal) \X (0..MaxVal)
PairRank(p) == p[1] * (MaxVal + 1) + p[2]

\* The samples enter the histogram as a multiset: one order is drawn per
\* multiset of (x, y) pairs, the pairs in non-decreasing rank.
RECURSIVE SampleSeqs(_)
SampleSeqs(n) ==
    IF n = 0 THEN {<<>>}
    ELSE UNION { {Append(s, p) : p \in {q \in Pairs :
                        s = <<>> \/ PairRank(s[Len(s)]) <= PairRank(q)}} :
                 s \in SampleSeqs(n - 1) }

\* Between 1 and MaxSamples samples.
SampleChoices == UNION {SampleSeqs(n) : n \in 1..MaxSamples}

IntervalChoices ==
    { <<0, 3935, 8647>>,      \* the default of line 22: 1 - exp(-k^2/2), k = 0, 1, 2
      <<0, 8647>>,
      <<0, 5000>>,
      <<0, 8500, 10000>> }

Styles == [histunder : BOOLEAN, filled : BOOLEAN, gradient : BOOLEAN]
DefaultStyle == [histunder |-> FALSE, filled |-> FALSE, gradient |-> FALSE]

---------------------------------------------------------------------------
(* confidence_2d, lines 16-75.  The keyword arguments scatter, ax and the  *)
(* drawing style are read-only; each is drawn at the step that first reads *)
(* it.                                                                     *)

c2dIdle ==
    /\ pc = "idle"
    /\ xsamples = <<>> /\ ysamples = <<>>
    /\ nbins = 0
    /\ intervals = <<>>
    /\ scatter = FALSE
    /\ ax = "None"
    /\ style = DefaultStyle
    /\ H = <<>>
    /\ xedges = <<>> /\ yedges = <<>>
    /\ h = <<>>
    /\ v = <<>>
    /\ exc = "none"
    /\ raised = "none"
    /\ calls = <<>>
    /\ points = <<>>
    /\ levels = <<>>
    /\ xlim = <<>> /\ ylim = <<>>

\* Lines 21-23: the call, and the histogram of the samples.
Enter ==
    /\ pc = "idle"
    /\ \E s \in SampleChoices, nb \in 1..MaxBins, iv \in IntervalChoices :
            LET xs == [k \in DOMAIN s |-> s[k][1]]
                ys == [k \in DOMAIN s |-> s[k][2]]
            IN  /\ xsamples' = xs
                /\ ysamples' = ys
                /\ nbins' = nb
                /\ intervals' = iv
                /\ H' = Histogram2d(ys, xs, nb)
                /\ yedges' = Edges(ys, nb)
                /\ xedges' = Edges(xs, nb)
    /\ pc' = "levels"
    /\ UNCHANGED <<scatter, ax, style, h, v, exc, raised, calls, points, levels, xlim, ylim>>

\* Lines 26-33 with scatter not set: the try block.
TryLevels ==
    /\ pc = "levels"
    /\ scatter' = FALSE
    /\ LET hh == SortDesc(Flatten(H, nbins))
       IN  /\ h' = hh
           /\ IF LevelRaises(hh, intervals)
              THEN /\ v' = <<>>
                   /\ exc' = "IndexError"
                   /\ pc' = "except"
              ELSE /\ v' = Levels(hh, intervals)
                   /\ IF DiffPositive(Levels(hh, intervals))
                      THEN exc' = "none" /\ pc' = "contour"
                      ELSE exc' = "RuntimeError" /\ pc' = "except"
    /\ UNCHANGED <<xsamples, ysamples, nbins, intervals, ax, style, H, xedges, yedges,
                   raised, calls, points, levels, xlim, ylim>>

\* The scatter plot of lines 35-43 and of lines 48-53 on the axes a:
\* "fig,ax = plt.subplots" (no call) unpacks a function and raises TypeError.
ScatterOn(a) ==
    /\ ax' = a
    /\ IF a = "None"
       THEN /\ raised' = "TypeError"
            /\ pc' = "raised"
            /\ UNCHANGED <<calls, points, xlim, ylim>>
       ELSE /\ calls' = <<"plot", "set_xlim", "set_ylim">>
            /\ points' = <<xsamples, ysamples>>
            /\ xlim' = <<SetMin(Range(xedges)), SetMax(Range(xedges))>>
            /\ ylim' = <<SetMin(Range(yedges)), SetMax(Range(yedges))>>
            /\ pc' = "done"
            /\ UNCHANGED raised

\* Lines 34-43: the handler of the bare except.
ExceptFallback ==
    /\ pc = "except"
    /\ \E a \in {"None", "axes"} : ScatterOn(a)
    /\ UNCHANGED <<xsamples, ysamples, nbins, intervals, scatter, style, H, xedges, yedges,
                   h, v, exc, levels>>

\* Line 26 with scatter set, then lines 46-53.
ScatterPlot ==
    /\ pc = "levels"
    /\ scatter' = TRUE
    /\ \E a \in {"None", "axes"} : ScatterOn(a)
    /\ UNCHANGED <<xsamples, ysamples, nbins, intervals, style, H, xedges, yedges,
                   h, v, exc, levels>>

\* The drawing calls of lines 62-73.
DrawCalls(st) ==
    IF st.histunder THEN <<"hist2d", "contour">>
    ELSE IF st.filled
         THEN IF st.gradient THEN <<"imshow", "contour">> ELSE <<"contourf", "contour">>
         ELSE <<"contour">>

\* Lines 55-75: the contours, on the axes given or on new ones (line 61).
DrawContours ==
    /\ pc = "contour"
    /\ \E a \in {"None", "axes"}, st \in Styles :
         /\ ax' = IF a = "None" THEN "new" ELSE a
         /\ style' = st
         /\ calls' = DrawCalls(st)
    /\ levels' = v
    /\ pc' = "done"
    /\ UNCHANGED <<xsamples, ysamples, nbins, intervals, scatter, H, xedges, yedges,
                   h, v, exc, raised, points, xlim, ylim>>


---------------------------------------------------------------------------
(* The step polyline of corner_plot, lines 228-237 and 303-312.  numpy     *)
(* arrays are indexed from 0 and a negative index counts from the end.     *)

\* a[k]
PyAt(a, k) == IF k < 0 THEN a[Len(a) + k + 1] ELSE a[k + 1]

\* a[k] = val
PySet(a, k, val) == IF k < 0 THEN [a EXCEPT ![Len(a) + k + 1] = val]
                    ELSE [a EXCEPT ![k + 1] = val]

\* IntHalf as the floor division (a)//2, which Python 2 computes for int(a/2)
\* without the __future__ import.
FloorHalf(a) == a \div 2

\* int(a/2) under "from __future__ import division": true division, then
\* truncation toward zero.
IntHalf(a) == IF a >= 0 THEN a \div 2 ELSE 0 - ((0 - a) \div 2)

\* Zeros one entry short: np.zeros( nbins*2 + 1 ).
ZerosShort(nb) == [k \in 1..(nb * 2 + 1) |-> 0]

\* np.zeros( nbins*2 + 2 )
Zeros(nb) == [k \in 1..(nb * 2 + 2) |-> 0]

\* The walls np.histogram returns: nb+1 equally spaced edges.
WallsOf(lo, w, nb) == [k \in 1..(nb + 1) |-> lo + (k - 1) * w]

stepIdle ==
    /\ spc = "idle"
    /\ sbins = 0
    /\ vals = <<>>
    /\ walls = <<>>
    /\ i = 0
    /\ xplot = <<>>
    /\ yplot = <<>>

\* Lines 226-229 (301-304): the histogram, and the two arrays of zeros.
StepAlloc ==
    /\ spc = "idle"
    /\ \E nb \in 1..MaxStepBins, lo \in 0..MaxVal, w \in 1..(MaxVal + 1) :
         \E vs \in [1..nb -> 0..MaxCount] :
            /\ sbins' = nb
            /\ vals' = vs
            /\ walls' = WallsOf(lo, w, nb)
            /\ xplot' = Zeros(nb)
            /\ yplot' = Zeros(nb)
    /\ i' = 1
    /\ spc' = "loop"

\* Lines 230-232 (305-307): one pass of the loop over xrange(1, nbins*2+1).
StepLoop ==
    /\ spc = "loop"
    /\ i < sbins * 2 + 1
    /\ xplot' = PySet(xplot, i, PyAt(walls, IntHalf(i - 1)))
    /\ yplot' = PySet(yplot, i, PyAt(vals, IntHalf(i - 2)))
    /\ i' = i + 1
    /\ UNCHANGED <<spc, sbins, vals, walls>>

\* Lines 234-237 (309-312): the loop is over; the two ends.
StepEnds ==
    /\ spc = "loop"
    /\ ~(i < sbins * 2 + 1)
    /\ xplot' = PySet(PySet(xplot, 0, PyAt(walls, 0)), 0 - 1, PyAt(walls, 0 - 1))
    /\ yplot' = LET y0 == PySet(yplot, 0, PyAt(yplot, 1))
               IN  PySet(y0, 0 - 1, PyAt(y0, 0 - 2))
    /\ spc' = "done"
    /\ UNCHANGED <<sbins, vals, walls, i>>


---------------------------------------------------------------------------
(* corner_plot, lines 93-349.  A list argument is kept as its length: the  *)
(* code reads truths and axis_labels only by index, and what matters to    *)
(* the control flow is whether the index exists.  A panel is a record:     *)
(* [kind |-> "1d", x |-> var, y |-> var] or [kind |-> "2d", x, y].         *)

ListChoices ==
    {[given |-> FALSE, len |-> 0]} \cup
    {[given |-> TRUE, len |-> k] : k \in 0..(MaxTraces + 1)}

Panel1d(var) == [kind |-> "1d", x |-> var, y |-> var]
Panel2d(xv, yv) == [kind |-> "2d", x |-> xv, y |-> yv]

\* a[k] raises IndexError on a list of length len.
IndexError(len, k) == IF k < 0 THEN len + k < 0 ELSE k >= len

\* Lines 183-192: the keys of hist_2d_axes.
Hist2dKeys(n) ==
    UNION { { <<x_pos, n - 1 - y_pos>> : y_pos \in 0..(n - 1 - x_pos - 1) } :
            x_pos \in 0..(n - 1 - 1) }

\* Lines 196-202: the keys of hist_1d_axes.
Hist1dKeys(n) == (0..(n - 1 - 1)) \cup {n - 1}

cornerIdle ==
    /\ cpc = "idle"
    /\ n_traces = 0
    /\ truths = [given |-> FALSE, len |-> 0]
    /\ axis_labels = 0
    /\ cscatter = FALSE
    /\ x_var = 0
    /\ y_var = 0
    /\ hist_2d_axes = {}
    /\ hist_1d_axes = {}
    /\ invoked = <<>>
    /\ overlays = {}
    /\ panels = {}
    /\ warnings = {}
    /\ labelled = {}
    /\ craised = "none"

\* Lines 153-222: the arguments, the two warnings, the axes.
CornerSetup ==
    /\ cpc = "idle"
    /\ \E n \in 2..MaxTraces, t \in ListChoices, l \in ListChoices, sc \in BOOLEAN :
         LET nlabels == IF l.given THEN l.len ELSE n
         IN  /\ n_traces' = n
             /\ truths' = t
             /\ axis_labels' = nlabels
             /\ cscatter' = sc
             /\ warnings' =
                  (IF n # nlabels THEN {"axis labels"} ELSE {}) \cup
                  (IF t.given /\ t.len # n THEN {"true values"} ELSE {})
             /\ hist_2d_axes' = Hist2dKeys(n)
             /\ hist_1d_axes' = Hist1dKeys(n)
    /\ cpc' = "last1d"
    /\ UNCHANGED <<x_var, y_var, invoked, overlays, panels, labelled, craised>>

\* Lines 226-267: the 1-D histogram of the last variable.
LastHist1d ==
    /\ cpc = "last1d"
    /\ panels' = panels \cup {Panel1d(n_traces - 1)}
    /\ IF IndexError(axis_labels, 0 - 1)
       THEN /\ craised' = "IndexError" /\ cpc' = "raised"
            /\ UNCHANGED overlays
       ELSE IF truths.given
            THEN IF IndexError(truths.len, n_traces - 1)
                 THEN /\ craised' = "IndexError" /\ cpc' = "raised"
                      /\ UNCHANGED overlays
                 ELSE /\ overlays' = overlays \cup {Panel1d(n_traces - 1)}
                      /\ cpc' = "pairs"
                      /\ UNCHANGED craised
            ELSE /\ cpc' = "pairs"
                 /\ UNCHANGED <<overlays, craised>>
    /\ x_var' = 0
    /\ y_var' = 0
    /\ UNCHANGED <<n_traces, truths, axis_labels, cscatter, hist_2d_axes, hist_1d_axes,
                   invoked, warnings, labelled>>

\* The end of one pass of the inner loop of line 272.
NextPair ==
    IF y_var + 1 < n_traces
    THEN y_var' = y_var + 1 /\ cpc' = "pairs"
    ELSE y_var' = y_var /\ cpc' = "hist1d"

\* Lines 273-276, 298-299: hist_2d_axes[(x_var,y_var)] raises KeyError while the
\* arguments of confidence_2d are evaluated; the handler passes.
PairKeyError ==
    /\ cpc = "pairs"
    /\ <<x_var, y_var>> \notin hist_2d_axes
    /\ NextPair
    /\ UNCHANGED <<n_traces, truths, axis_labels, cscatter, x_var, hist_2d_axes,
                   hist_1d_axes, invoked, overlays, panels, warnings, labelled, craised>>

\* Lines 273-297: confidence_2d on the axes of the pair, then the truth marker.
\* scalarMap (line 295) is bound only when scatter is not set (lines 239-245).
PairPlot ==
    /\ cpc = "pairs"
    /\ <<x_var, y_var>> \in hist_2d_axes
    /\ invoked' = Append(invoked, [xs |-> x_var, ys |-> y_var, ax |-> <<x_var, y_var>>])
    /\ panels' = panels \cup {Panel2d(x_var, y_var)}
    /\ IF truths.given
       THEN IF IndexError(truths.len, x_var) \/ IndexError(truths.len, y_var)
            THEN /\ craised' = "IndexError" /\ cpc' = "raised"
                 /\ UNCHANGED <<overlays, y_var>>
            ELSE IF cscatter
                 THEN /\ craised' = "NameError" /\ cpc' = "raised"
                      /\ UNCHANGED <<overlays, y_var>>
                 ELSE /\ overlays' = overlays \cup {Panel2d(x_var, y_var)}
                      /\ NextPair
                      /\ UNCHANGED craised
       ELSE /\ NextPair
            /\ UNCHANGED <<overlays, craised>>
    /\ UNCHANGED <<n_traces, truths, axis_labels, cscatter, x_var, hist_2d_axes,
                   hist_1d_axes, warnings, labelled>>

\* Lines 300-328, and the step of the outer loop of line 271.
Hist1d ==
    /\ cpc = "hist1d"
    /\ IF x_var < n_traces - 1
       THEN /\ panels' = panels \cup {Panel1d(x_var)}
            /\ IF truths.given
               THEN IF IndexError(truths.len, x_var)
                    THEN /\ craised' = "IndexError" /\ cpc' = "raised"
                         /\ UNCHANGED <<overlays, x_var, y_var>>
                    ELSE /\ overlays' = overlays \cup {Panel1d(x_var)}
                         /\ x_var' = x_var + 1 /\ y_var' = 0 /\ cpc' = "pairs"
                         /\ UNCHANGED craised
               ELSE /\ x_var' = x_var + 1 /\ y_var' = 0 /\ cpc' = "pairs"
                    /\ UNCHANGED <<overlays, craised>>
       ELSE /\ cpc' = "labels"
            /\ UNCHANGED <<panels, overlays, craised, x_var, y_var>>
    /\ UNCHANGED <<n_traces, truths, axis_labels, cscatter, hist_2d_axes, hist_1d_axes,
                   invoked, warnings, labelled>>

\* Lines 331-349: the axis labels (x labels first, then y labels), the return.
AxisLabels ==
    /\ cpc = "labels"
    /\ LET xs == {k \in 0..(n_traces - 1 - 1) : \A j \in 0..k : ~IndexError(axis_labels, j)}
           xfail == \E k \in 0..(n_traces - 1 - 1) : IndexError(axis_labels, k)
           ys == {k \in 1..(n_traces - 1) : \A j \in 1..k : ~IndexError(axis_labels, j)}
           yfail == \E k \in 1..(n_traces - 1) : IndexError(axis_labels, k)
       IN  /\ labelled' = {Panel2d(k, n_traces - 1) : k \in xs} \cup
                          (IF xfail THEN {} ELSE {Panel2d(0, k) : k \in ys})
           /\ IF xfail \/ yfail
              THEN craised' = "IndexError" /\ cpc' = "raised"
              ELSE craised' = craised /\ cpc' = "done"
    /\ UNCHANGED <<n_traces, truths, axis_labels, cscatter, x_var, y_var, hist_2d_axes,
                   hist_1d_axes, invoked, overlays, panels, warnings>>


---------------------------------------------------------------------------
(* The specifications. *)

Init == c2dIdle /\ stepIdle /\ cornerIdle

Next ==
    \/ Enter /\ UNCHANGED <<stepVars, cornerVars>>
    \/ TryLevels /\ UNCHANGED <<stepVars, cornerVars>>
    \/ ExceptFallback /\ UNCHANGED <<stepVars, cornerVars>>
    \/ ScatterPlot /\ UNCHANGED <<stepVars, cornerVars>>
    \/ DrawContours /\ UNCHANGED <<stepVars, cornerVars>>

Spec == Init /\ [][Next]_vars

NextStep ==
    \/ StepAlloc /\ UNCHANGED <<c2dVars, cornerVars>>
    \/ StepLoop /\ UNCHANGED <<c2dVars, cornerVars>>
    \/ StepEnds /\ UNCHANGED <<c2dVars, cornerVars>>

SpecStep == Init /\ [][NextStep]_vars

NextCorner ==
    \/ CornerSetup /\ UNCHANGED <<c2dVars, stepVars>>
    \/ LastHist1d /\ UNCHANGED <<c2dVars, stepVars>>
    \/ PairKeyError /\ UNCHANGED <<c2dVars, stepVars>>
    \/ PairPlot /\ UNCHANGED <<c2dVars, stepVars>>
    \/ Hist1d /\ UNCHANGED <<c2dVars, stepVars>>
    \/ AxisLabels /\ UNCHANGED <<c2dVars, stepVars>>

SpecCorner == Init /\ [][NextCorner]_vars

---------------------------------------------------------------------------
(* What the properties speak of. *)

\* confidence_2d has returned, or an exception has left it.
Finished == pc \in {"done", "raised"}

Total == Len(xsamples)
Occupancies == {H[b] : b \in DOMAIN H}
MaxOccupancy == SetMax(Occupancies)
Occupied == {b \in DOMAIN H : H[b] > 0}

RECURSIVE SumOver(_, _)
SumOver(HH, B) ==
    IF B = {} THEN 0
    ELSE LET b == CHOOSE b \in B : TRUE IN HH[b] + SumOver(HH, B \ {b})

\* The counts of all bins with occupancy >= c, and > c.
MassAtOrAbove(c) == SumOver(H, {b \in DOMAIN H : H[b] >= c})
MassAbove(c) == SumOver(H, {b \in DOMAIN H : H[b] > c})

\* The entry of v computed for intervals[j], j >= 2 (v is reversed, line 30).
LevelFor(j) == v[Len(intervals) - j + 1]

Requested == 2..Len(intervals)

FallbackCalls == <<"plot", "set_xlim", "set_ylim">>
ContourDrawn == pc = "done" /\ "contour" \in Range(calls)
ScatterFallback ==
    /\ pc = "done"
    /\ raised = "none"
    /\ calls = FallbackCalls
    /\ points = <<xsamples, ysamples>>
    /\ xlim = <<SetMin(Range(xedges)), SetMax(Range(xedges))>>
    /\ ylim = <<SetMin(Range(yedges)), SetMax(Range(yedges))>>
    /\ levels = <<>>

Identical(s) == s # <<>> /\ \A k \in DOMAIN s : s[k] = s[1]

---------------------------------------------------------------------------
(* confidence_2d: the claims. *)

\* C1: whenever confidence_2d, scatter not set, reaches contour drawing, the
\* levels it passes to contour are strictly increasing, there are exactly
\* len(intervals) of them, and the last is the largest single-bin occupancy.
C1_LevelsStrictlyIncreasing ==
    ContourDrawn =>
        /\ ~scatter
        /\ Len(levels) = Len(intervals)
        /\ \A k \in 1..(Len(levels) - 1) : levels[k] < levels[k + 1]
        /\ levels[Len(levels)] = MaxOccupancy

C1_Witness ==
    /\ ContourDrawn
    /\ Len(levels) = 3
    /\ levels[1] < levels[2]

\* C2 (as claimed): on a successful level estimation, the bins with occupancy
\* at or above the level of each requested interval p hold at least p of the
\* total count.
C2_LevelEnclosesAtLeastP ==
    ContourDrawn =>
        \A j \in Requested :
            MassAtOrAbove(LevelFor(j)) * Denominator >= intervals[j] * Total

\* C3 (as claimed): with scatter set, or with levels that are not strictly
\* increasing, the call ends in the scatter fallback: the samples plotted, the
\* limits at the extreme bin edges, no contour, no exception to the caller.
C3_FallbackNeverRaises ==
    (Finished /\ (scatter \/ exc = "RuntimeError")) => ScatterFallback

C7_LargestOccupancyWithin ==
    v # <<>> =>
        \A j \in Requested :
            LET within == {c \in Occupancies :
                              MassAtOrAbove(c) * Denominator <= intervals[j] * Total}
            IN  within # {} /\ LevelFor(j) = SetMax(within)

\* C7 (amended): the threshold of each requested interval p is the smallest
\* occupancy the descending accumulation reaches within p: the smallest c
\* such that the bins more populated than c, plus one bin of occupancy c, hold
\* at most p of the total count.  (Bins tied at the threshold are counted one
\* by one, so all bins with occupancy >= the threshold may hold more than p.)
C7_SmallestOccupancyReached ==
    v # <<>> =>
        /\ Len(v) = Len(intervals)
        /\ \A j \in Requested :
            LET reached == {c \in Occupancies :
                              (MassAbove(c) + c) * Denominator <= intervals[j] * Total}
            IN  reached # {} /\ LevelFor(j) = SetMin(reached)

C7_Witness ==
    /\ v # <<>>
    /\ \E j \in Requested :
          /\ LevelFor(j) < MaxOccupancy
          /\ MassAtOrAbove(LevelFor(j)) * Denominator > intervals[j] * Total

\* C9: when the most populated bin alone holds more than some requested p of
\* the total count (in particular when one bin holds everything),
\* confidence_2d with axes given and scatter not set ends in the scatter
\* fallback, the limits at the extreme bin edges, and draws no contour.
C9_ConcentratedMassFallsBack ==
    (/\ Finished
     /\ ax = "axes"
     /\ ~scatter
     /\ \E j \in Requested : MaxOccupancy * Denominator > intervals[j] * Total)
    => /\ ScatterFallback
       /\ exc = "IndexError"
       /\ xlim = <<Lo2(xsamples) * nbins, Hi2(xsamples) * nbins>>
       /\ ylim = <<Lo2(ysamples) * nbins, Hi2(ysamples) * nbins>>
       /\ \A c \in {"contour", "contourf", "imshow", "hist2d"} : c \notin Range(calls)

C9_Witness ==
    /\ pc = "done"
    /\ ax = "axes"
    /\ ~scatter
    /\ Cardinality(Occupied) = 1
    /\ nbins >= 2
    /\ Len(intervals) = 3
    /\ exc = "IndexError"
    /\ calls = FallbackCalls

---------------------------------------------------------------------------
(* The step polyline: the claims. *)

\* C4: the polyline of a histogram of nbins >= 1 bins has 2*nbins+2 x values
\* and as many y values; its first x is walls[0] and its last x is walls[nbins].
C4_PolylineLengthAndEnds ==
    spc = "done" =>
        /\ Len(xplot) = 2 * sbins + 2
        /\ Len(yplot) = 2 * sbins + 2
        /\ xplot[1] = walls[1]
        /\ xplot[Len(xplot)] = walls[sbins + 1]

C4_Witness ==
    /\ spc = "done"
    /\ sbins >= 2
    /\ xplot[Len(xplot)] > xplot[Len(xplot) - 1]

\* C8: the polyline is the outline of the histogram: for every bin k the points
\* (walls[k], vals[k]) and (walls[k+1], vals[k]) follow one another, x never
\* decreases, and the first and last y are vals[0] and vals[nbins-1].
C8_PolylineIsOutline ==
    spc = "done" =>
        /\ \A k \in 1..sbins :
              \E m \in 1..(Len(xplot) - 1) :
                  /\ xplot[m] = walls[k] /\ yplot[m] = vals[k]
                  /\ xplot[m + 1] = walls[k + 1] /\ yplot[m + 1] = vals[k]
        /\ \A m \in 1..(Len(xplot) - 1) : xplot[m] <= xplot[m + 1]
        /\ yplot[1] = vals[1]
        /\ yplot[Len(yplot)] = vals[sbins]

C8_Witness ==
    /\ spc = "done"
    /\ sbins >= 2
    /\ vals[1] # vals[sbins]
    /\ yplot[1] = vals[1]

---------------------------------------------------------------------------
(* corner_plot: the claims. *)

Returned == cpc \in {"done", "raised"}
TruthsMismatch == truths.given /\ truths.len # n_traces
LabelsMismatch == axis_labels # n_traces
UpperPairs(n) == {q \in (0..(n - 1)) \X (0..(n - 1)) : q[1] < q[2]}
AllPanels(n) == {Panel1d(k) : k \in 0..(n - 1)} \cup
                {Panel2d(q[1], q[2]) : q \in UpperPairs(n)}
InvokedFor(q) == {k \in DOMAIN invoked : invoked[k].ax = q}

\* C5 (as claimed): when truths or axis_labels has another length than the
\* chain has variables, corner_plot warns, renders every 1-D and 2-D panel
\* and returns without raising; mismatched truths are overlaid on no panel.
C5_MismatchWarnsAndCompletes ==
    (Returned /\ (TruthsMismatch \/ LabelsMismatch)) =>
        /\ warnings # {}
        /\ cpc = "done"
        /\ craised = "none"
        /\ panels = AllPanels(n_traces)
        /\ TruthsMismatch => overlays = {}

\* C10 (as claimed): one call of corner_plot over n variables invokes
\* confidence_2d exactly once for every pair x_var < y_var and for no other
\* pair, each time on the axes keyed by the pair and on the samples of its
\* two variables; hist_2d_axes holds exactly those n*(n-1)/2 keys.
C10_EveryPairInvokedOnce ==
    Returned =>
        /\ hist_2d_axes = UpperPairs(n_traces)
        /\ 2 * Cardinality(hist_2d_axes) = n_traces * (n_traces - 1)
        /\ \A q \in UpperPairs(n_traces) : Cardinality(InvokedFor(q)) = 1
        /\ \A k \in DOMAIN invoked :
              /\ invoked[k].ax \in UpperPairs(n_traces)
              /\ invoked[k].xs = invoked[k].ax[1]
              /\ invoked[k].ys = invoked[k].ax[2]

\* What remains of C10 in every call, raising or not: the keys, no pair
\* invoked twice, none outside the upper triangle; and every pair is invoked
\* once unless an exception ended the pair loop.
C10_NoPairTwiceAndAllUnlessRaised ==
    cpc # "idle" =>
        /\ hist_2d_axes = UpperPairs(n_traces)
        /\ \A q \in UpperPairs(n_traces) : Cardinality(InvokedFor(q)) <= 1
        /\ \A k \in DOMAIN invoked :
              /\ invoked[k].ax \in UpperPairs(n_traces)
              /\ invoked[k].xs = invoked[k].ax[1]
              /\ invoked[k].ys = invoked[k].ax[2]
        /\ cpc \in {"labels", "done"} =>
              \A q \in UpperPairs(n_traces) : Cardinality(InvokedFor(q)) = 1

====
